---- MODULE Spec2Model ----
(***************************************************************************)
(* Model of bot.py: a Telegram storefront browser.  A fixed catalog        *)
(* (PRODUCTS) is browsed through inline buttons; every button carries a    *)
(* callback token, and button_handler decodes the token and renders the    *)
(* next screen through the transport (answer, edit_message_text,           *)
(* reply_photo, delete).                                                   *)
(*                                                                         *)
(* Strings.  A Python string is modelled as a sequence of symbols.  The    *)
(* symbol "_" is the delimiter character; every other symbol stands for a  *)
(* non-empty run of characters that holds no "_" (a word such as           *)
(* "category" or "p1").  No word used here is the concatenation of other   *)
(* words, so two strings are equal exactly when their sequences are.       *)
(*                                                                         *)
(* Handlers.  button_handler is a coroutine: it runs from one await to the *)
(* next without interruption.  A handler instance is therefore a record    *)
(* with a position pc, and there is one action per await (Answer,          *)
(* EditMessageText, ReplyPhoto, DeleteMessage) plus Route for the          *)
(* synchronous decoding between the acknowledgement and the first          *)
(* transport call.                                                         *)
(*                                                                         *)
(* Transport.  The Telegram Bot API is outside the repository; it is       *)
(* modelled by what it answers to the calls the code makes: any call may   *)
(* fail for a network reason (NetworkError), and the API rejects with      *)
(* BadRequest an editMessageText whose target is deleted, is a photo       *)
(* message (it has no text to edit) or already shows exactly the new       *)
(* content, and a deleteMessage whose target is already deleted.           *)
(***************************************************************************)
EXTENDS Integers, Sequences, FiniteSets, TLC

VARIABLES PRODUCTS, msgs, hs

vars == <<PRODUCTS, msgs, hs>>

\* ---------------------------------------------------------------- bounds

\* Messages the bot creates in one run (start menus and product details).
MaxMsgs == 2

\* ---------------------------------------------------------------- strings

Delim == "_"

\* The maxsplit argument of query.data.split('_', 2).
MaxSplit == 2

\* A delimiter-free word as a string.
Word(w) == <<w>>

\* f"{a}_{b}"
Joined(a, b) == a \o <<Delim>> \o b

HasDelim(s) == \E i \in 1..Len(s) : s[i] = Delim

FirstDelim(s) == CHOOSE i \in 1..Len(s) : s[i] = Delim /\ \A j \in 1..(i - 1) : s[j] # Delim

\* Mutant of Split: str.split(Delim), which cuts at every delimiter.
RECURSIVE SplitAll(_, _)
SplitAll(s, n) ==
    IF ~HasDelim(s)
    THEN <<s>>
    ELSE LET i == FirstDelim(s)
         IN <<SubSeq(s, 1, i - 1)>> \o SplitAll(SubSeq(s, i + 1, Len(s)), n)

\* str.split(Delim, n): cut at the first n delimiters, left to right.
RECURSIVE Split(_, _)
Split(s, n) ==
    IF n = 0 \/ ~HasDelim(s)
    THEN <<s>>
    ELSE LET i == FirstDelim(s)
         IN <<SubSeq(s, 1, i - 1)>> \o Split(SubSeq(s, i + 1, Len(s)), n - 1)

\* f"{price:.2f}" of a price held in hundredths: whole part, point, two digits.
Format2f(price) ==
    <<ToString(price \div 100), ".", ToString((price % 100) \div 10), ToString(price % 10)>>

\* ---------------------------------------------------------------- catalog

\* A dict is a sequence of entries in insertion order, each with its key.
HasKey(d, k) == \E i \in 1..Len(d) : d[i].key = k

DictGet(d, k) == d[CHOOSE i \in 1..Len(d) : d[i].key = k]

Product(k, n, p, d, u) ==
    [key |-> Word(k), name |-> n, price |-> p, description |-> d, image_url |-> u]

\* PRODUCTS is a literal of four categories (one of six products, three of
\* one).  The catalogs below keep its structure at a smaller size: ordered
\* categories with a name and ordered items, a category of several products
\* and a category of one, keys that hold no delimiter, prices in hundredths.
\* The catalog of the end-to-end scenario: A = {p1, p2}, B = {p3}.
CatalogAB ==
    << [key |-> Word("A"), name |-> "Cat A",
        items |-> << Product("p1", "Sapphire", 30000, "deep blue", "url-A-p1"),
                     Product("p2", "Ruby", 50055, "vibrant red", "url-A-p2") >>],
       [key |-> Word("B"), name |-> "Cat B",
        items |-> << Product("p3", "Moonstone Ring", 12000, "ethereal", "url-B-p3") >>] >>

\* Product keys are unique within their category only: p1 names two products.
CatalogBA ==
    << [key |-> Word("B"), name |-> "Cat B",
        items |-> << Product("p1", "Pearl Necklace", 18000, "luminous", "url-B-p1") >>],
       [key |-> Word("A"), name |-> "Cat A",
        items |-> << Product("p2", "Amethyst", 12005, "purple", "url-A-p2"),
                     Product("p1", "Topaz", 9500, "sky-blue", "url-A-p1") >>] >>

Catalogs == {CatalogAB, CatalogBA}

\* Catalogs a maintainer could write into PRODUCTS with a delimiter in a key.
\* A product key with the delimiter, "p_1", beside the product "p":
CatalogDelimProduct ==
    << [key |-> Word("A"), name |-> "Cat A",
        items |-> << [key |-> Joined(Word("p"), Word("1")), name |-> "Opal", price |-> 7000,
                      description |-> "fiery", image_url |-> "url-A-p_1"],
                     Product("p", "Garnet", 4550, "dark red", "url-A-p") >>] >>

\* A category key with the delimiter, "A_x":
CatalogDelimCategory ==
    << [key |-> Joined(Word("A"), Word("x")), name |-> "Cat A x",
        items |-> << Product("p1", "Sapphire", 30000, "deep blue", "url-A_x-p1") >>],
       [key |-> Word("B"), name |-> "Cat B",
        items |-> << Product("p3", "Moonstone Ring", 12000, "ethereal", "url-B-p3") >>] >>

CatalogsWithKeys == Catalogs \cup {CatalogDelimProduct, CatalogDelimCategory}

\* ---------------------------------------------------------------- screens

\* InlineKeyboardButton(label, callback_data=data)
Button(label, data) == [label |-> label, data |-> data]

TextScreen(text, buttons) ==
    [kind |-> "text", text |-> text, photo |-> "", buttons |-> buttons]

PhotoScreen(photo, caption, buttons) ==
    [kind |-> "photo", text |-> caption, photo |-> photo, buttons |-> buttons]

\* What a call that carries no screen (answer, delete) records.
NoScreen == [kind |-> "none", text |-> <<>>, photo |-> "", buttons |-> <<>>]

\* Mutant of CategoryKeyboard: the token carries the category's display name.
CategoryKeyboardByName ==
    [i \in 1..Len(PRODUCTS) |->
        Button(<<PRODUCTS[i].name>>, Joined(Word("category"), Word(PRODUCTS[i].name)))]

\* The keyboard built by start and by go_back_to_categories:
\* one button per category, in insertion order.
CategoryKeyboard ==
    [i \in 1..Len(PRODUCTS) |->
        Button(<<PRODUCTS[i].name>>, Joined(Word("category"), PRODUCTS[i].key))]

\* Mutant of WelcomeScreen: start lists the categories in another order than
\* the dict's.
WelcomeScreenReversed(user) ==
    TextScreen(<<"Welcome to SpiritedSHE", user, "Please select a category to begin browsing:">>,
               [i \in 1..Len(PRODUCTS) |-> CategoryKeyboard[Len(PRODUCTS) + 1 - i]])

WelcomeScreen(user) ==
    TextScreen(<<"Welcome to SpiritedSHE", user, "Please select a category to begin browsing:">>,
               CategoryKeyboard)

CategoryMenuScreen ==
    TextScreen(<<"Please select a category to continue browsing:">>, CategoryKeyboard)

\* The "Back to Categories" button of the product list.
BackButton == Button(<<"Back to Categories">>, Joined(Word("back"), Word("categories")))

\* Mutant of CategoryNotFoundScreen: the error text keeps a way back.
CategoryNotFoundWithBack == TextScreen(<<"Sorry, category not found.">>, <<BackButton>>)

CategoryNotFoundScreen == TextScreen(<<"Sorry, category not found.">>, <<>>)

\* Mutant of ProductNotFoundScreen: the error text keeps a way back.
ProductNotFoundWithBack == TextScreen(<<"Sorry, product not found.">>, <<BackButton>>)

ProductNotFoundScreen == TextScreen(<<"Sorry, product not found.">>, <<>>)

\* Mutant of ProductKeyboard: the product token leaves the category key out.
ProductKeyboardShortToken(category_key) ==
    LET items == DictGet(PRODUCTS, category_key).items
    IN [i \in 1..Len(items) |->
           Button(<<items[i].name>>, Joined(Word("product"), items[i].key))]
       \o <<BackButton>>

\* The keyboard of show_products_in_category: one button per product of the
\* category, in insertion order, then the back button.
ProductKeyboard(category_key) ==
    LET items == DictGet(PRODUCTS, category_key).items
    IN [i \in 1..Len(items) |->
           Button(<<items[i].name>>,
                  Joined(Joined(Word("product"), category_key), items[i].key))]
       \o <<BackButton>>

\* Mutant of ProductListScreen: the header counts the messages sent so far, a
\* value that earlier navigations change.
ProductListScreenCounted(category_key) ==
    TextScreen(<<"Showing products in", DictGet(PRODUCTS, category_key).name,
                 ToString(Len(msgs))>>,
               ProductKeyboard(category_key))

ProductListScreen(category_key) ==
    TextScreen(<<"Showing products in", DictGet(PRODUCTS, category_key).name>>,
               ProductKeyboard(category_key))

\* Mutant of ItemsOf: the product key is looked up in every category.
RECURSIVE ItemsFrom(_)
ItemsFrom(i) == IF i > Len(PRODUCTS) THEN <<>> ELSE PRODUCTS[i].items \o ItemsFrom(i + 1)

ItemsOfAnyCategory(category_key) ==
    IF HasKey(PRODUCTS, category_key) THEN ItemsFrom(1) ELSE <<>>

\* PRODUCTS.get(category_key, {}).get("items", {})
ItemsOf(category_key) ==
    IF HasKey(PRODUCTS, category_key) THEN DictGet(PRODUCTS, category_key).items ELSE <<>>

\* Whether PRODUCTS.get(category_key, {}).get("items", {}).get(product_key) is a product.
ProductFound(category_key, product_key) == HasKey(ItemsOf(category_key), product_key)

Caption(product) ==
    <<"*", product.name, "*", "_", product.description, "_", "*Price: $">>
        \o Format2f(product.price) \o <<"*">>

DetailKeyboard(category_key, product_key) ==
    << Button(<<"Add to Cart">>, Joined(Joined(Word("add"), category_key), product_key)),
       Button(<<"Back to", DictGet(PRODUCTS, category_key).name>>,
              Joined(Word("category"), category_key)) >>

ProductDetailScreen(category_key, product_key) ==
    LET product == DictGet(ItemsOf(category_key), product_key)
    IN PhotoScreen(product.image_url, Caption(product),
                   DetailKeyboard(category_key, product_key))

\* ---------------------------------------------------------------- router

\* Mutant of Dispatch: the last branch is an else, so any other verb goes back.
DispatchElseBack(parts) ==
    LET query_type == parts[1]
    IN IF query_type = Word("category")
       THEN IF Len(parts) < 2 THEN "IndexError" ELSE "category"
       ELSE IF query_type = Word("product")
       THEN IF Len(parts) < 3 THEN "IndexError" ELSE "product"
       ELSE "back"

\* Mutant of Dispatch: the back branch reads parts[1] as its target.
DispatchBackNeedsTarget(parts) ==
    LET query_type == parts[1]
    IN IF query_type = Word("category")
       THEN IF Len(parts) < 2 THEN "IndexError" ELSE "category"
       ELSE IF query_type = Word("product")
       THEN IF Len(parts) < 3 THEN "IndexError" ELSE "product"
       ELSE IF query_type = Word("back")
       THEN IF Len(parts) < 2 THEN "IndexError" ELSE "back"
       ELSE "noop"

\* Where button_handler goes after parts = query.data.split('_', 2):
\* parts[1] and parts[2] of the code are parts[2] and parts[3] here.
Dispatch(parts) ==
    LET query_type == parts[1]
    IN IF query_type = Word("category")
       THEN IF Len(parts) < 2 THEN "IndexError" ELSE "category"
       ELSE IF query_type = Word("product")
       THEN IF Len(parts) < 3 THEN "IndexError" ELSE "product"
       ELSE IF query_type = Word("back")
       THEN "back"
       ELSE "noop"

\* Mutant of FirstAwait: show_product_details removes the originating message
\* first, before any replacement exists.
FirstAwaitDeleteFirst(parts) ==
    LET d == Dispatch(parts)
    IN IF d = "IndexError" THEN "raised"
       ELSE IF d = "noop" THEN "done"
       ELSE IF d = "product" /\ ProductFound(parts[2], parts[3]) THEN "delete"
       ELSE "edit"

\* The first await the dispatched renderer reaches.
FirstAwait(parts) ==
    LET d == Dispatch(parts)
    IN IF d = "IndexError" THEN "raised"
       ELSE IF d = "noop" THEN "done"
       ELSE IF d = "product" /\ ProductFound(parts[2], parts[3]) THEN "photo"
       ELSE "edit"

\* Mutant of EditScreen: a product token with an unknown category reports the
\* category, not the product.
EditScreenByCause(parts) ==
    LET d == Dispatch(parts)
    IN IF d = "category"
       THEN IF HasKey(PRODUCTS, parts[2])
            THEN ProductListScreen(parts[2])
            ELSE CategoryNotFoundScreen
       ELSE IF d = "product"
       THEN IF HasKey(PRODUCTS, parts[2])
            THEN ProductNotFoundScreen
            ELSE CategoryNotFoundScreen
       ELSE CategoryMenuScreen

\* The screen the pending edit_message_text carries.
EditScreen(parts) ==
    LET d == Dispatch(parts)
    IN IF d = "category"
       THEN IF HasKey(PRODUCTS, parts[2])
            THEN ProductListScreen(parts[2])
            ELSE CategoryNotFoundScreen
       ELSE IF d = "product"
       THEN ProductNotFoundScreen
       ELSE CategoryMenuScreen

\* ---------------------------------------------------------------- transport

\* One transport call as the handler issued it: the operation, the message it
\* targets (the message it created, for a photo; 0 when there is none), the
\* screen it carries and whether it succeeded.
Call(op, msg, screen, ok) == [op |-> op, msg |-> msg, screen |-> screen, ok |-> ok]

Message(screen) == [screen |-> screen, deleted |-> FALSE]

\* editMessageText is refused for a deleted message, for a photo message (no
\* text to edit) and when the content would not change.
EditRejected(m, screen) ==
    \/ msgs[m].deleted
    \/ msgs[m].screen.kind = "photo"
    \/ msgs[m].screen = screen

\* deleteMessage is refused for a message that is already gone.
DeleteRejected(m) == msgs[m].deleted

\* The exception a failed call raises in the handler.
Failure(net, rejected) ==
    IF ~net THEN "NetworkError" ELSE IF rejected THEN "BadRequest" ELSE "none"

\* ---------------------------------------------------------------- state

Users == {"Thiri"}

\* A handler instance: its position, query.message (the id of the message the
\* button was on, and that message as the update shows it), query.data, parts,
\* the transport calls it has issued so far, and the exception it ended with.
Idle == [pc |-> "idle", origin |-> 0, message |-> NoScreen, data |-> <<>>,
         parts |-> <<>>, calls |-> <<>>, err |-> "none"]

\* An update is being handled: the Application takes the next update only
\* when the handler of the present one has returned or raised.
Busy == \E h \in DOMAIN hs : hs[h].pc # "idle"

\* The tokens of every button the bot can show for this catalog: the menu's,
\* every product list's and every product detail's.
CatalogTokens ==
    UNION { {Joined(Word("category"), PRODUCTS[i].key)}
              \cup {ProductKeyboard(PRODUCTS[i].key)[j].data :
                      j \in 1..(Len(PRODUCTS[i].items) + 1)}
              \cup UNION { {DetailKeyboard(PRODUCTS[i].key, PRODUCTS[i].items[j].key)[n].data :
                             n \in 1..2} : j \in 1..Len(PRODUCTS[i].items) }
            : i \in 1..Len(PRODUCTS) }

\* Tokens no button of the bot carries, as a hand-made client sends them.
ForgedTokens ==
    { Word("category"),
      Word("product"),
      Joined(Word("product"), Word("A")),
      Word("back"),
      Joined(Word("back"), Word("zzz")),
      Joined(Word("xyz"), Word("foo")),
      Joined(Word("category"), Word("zzz")),
      Joined(Joined(Word("category"), Word("A")), Word("zzz")),
      Joined(Joined(Word("product"), Word("zzz")), Word("p1")),
      Joined(Joined(Word("product"), Word("A")), Word("zzz")) }

\* PRODUCTS is the module-level dict; no message exists and no update is
\* being handled.  Updates are handled one at a time (the Application is
\* built without concurrent_updates), so one handler slot is in use.
Init ==
    /\ PRODUCTS \in Catalogs
    /\ msgs = <<>>
    /\ hs = [h \in {1} |-> Idle]

\* ---------------------------------------------------------------- actions

\* /start: reply_text(welcome_message, reply_markup) creates a menu message.
\* A reply_text that fails creates nothing and leaves the state as it is.
Start(user) ==
    /\ ~Busy
    /\ Len(msgs) < MaxMsgs
    /\ msgs' = Append(msgs, Message(WelcomeScreen(user)))
    /\ UNCHANGED <<PRODUCTS, hs>>

\* button_handler is entered for a callback query on message m with token data.
Deliver(h, m, data) ==
    hs' = [hs EXCEPT ![h] = [pc |-> "answer", origin |-> m,
                            message |-> msgs[m].screen, data |-> data,
                            parts |-> <<>>, calls |-> <<>>, err |-> "none"]]

\* The tokens on the buttons a message shows.
ButtonTokens(m) ==
    {msgs[m].screen.buttons[i].data : i \in 1..Len(msgs[m].screen.buttons)}

\* Mutant of Callback: the handler starts at the decoding; the acknowledgement
\* is left out.
CallbackUnanswered(h) ==
    /\ ~Busy
    /\ \E m \in 1..Len(msgs), data \in CatalogTokens \cup ForgedTokens :
         hs' = [hs EXCEPT ![h] = [pc |-> "route", origin |-> m,
                                 message |-> msgs[m].screen, data |-> data,
                                 parts |-> <<>>, calls |-> <<>>, err |-> "none"]]
    /\ UNCHANGED <<PRODUCTS, msgs>>

\* An update with a callback query arrives: button_handler starts with
\* query.message = m and query.data = data, any token on any message the bot
\* has sent.  Updates wait in the
\* Application's queue while an earlier one is handled, so the tap may be
\* older than the message's present state: the message may show another
\* screen by now, or be deleted (the second tap of a double tap).
Callback(h) ==
    /\ ~Busy
    /\ \E m \in 1..Len(msgs), data \in CatalogTokens \cup ForgedTokens : Deliver(h, m, data)
    /\ UNCHANGED <<PRODUCTS, msgs>>

\* The same update when the user taps, one tap at a time, a button that a
\* visible message shows at that moment.
Tap(h) ==
    /\ ~Busy
    /\ \E m \in 1..Len(msgs) :
         /\ ~msgs[m].deleted
         /\ \E data \in ButtonTokens(m) : Deliver(h, m, data)
    /\ UNCHANGED <<PRODUCTS, msgs>>

\* await query.answer()
Answer(h) ==
    /\ hs[h].pc = "answer"
    /\ \E net \in BOOLEAN :
         hs' = [hs EXCEPT ![h].calls = Append(@, Call("answer", 0, NoScreen, net)),
                          ![h].pc = IF net THEN "route" ELSE "raised",
                          ![h].err = Failure(net, FALSE)]
    /\ UNCHANGED <<PRODUCTS, msgs>>

\* Mutant of Route: the category lookup is a setdefault, which inserts an empty
\* category for a key the catalog lacks.
RouteSetDefault(h) ==
    /\ hs[h].pc = "route"
    /\ LET parts == Split(hs[h].data, MaxSplit)
       IN /\ hs' = [hs EXCEPT ![h].parts = parts,
                              ![h].pc = FirstAwait(parts),
                              ![h].err = IF Dispatch(parts) = "IndexError"
                                         THEN "IndexError" ELSE "none"]
          /\ PRODUCTS' = IF Dispatch(parts) = "product" /\ ~HasKey(PRODUCTS, parts[2])
                         THEN Append(PRODUCTS, [key |-> parts[2], name |-> "", items |-> <<>>])
                         ELSE PRODUCTS
    /\ UNCHANGED msgs

\* parts = query.data.split('_', 2), the dispatch on parts[0] and the renderer
\* up to its first await; parts[1] or parts[2] missing raises IndexError.
Route(h) ==
    /\ hs[h].pc = "route"
    /\ LET parts == Split(hs[h].data, MaxSplit)
       IN hs' = [hs EXCEPT ![h].parts = parts,
                           ![h].pc = FirstAwait(parts),
                           ![h].err = IF Dispatch(parts) = "IndexError"
                                      THEN "IndexError" ELSE "none"]
    /\ UNCHANGED <<PRODUCTS, msgs>>

\* await query.edit_message_text(...), the last statement of its renderer.
EditMessageText(h) ==
    /\ hs[h].pc = "edit"
    /\ LET m == hs[h].origin
           screen == EditScreen(hs[h].parts)
           rejected == EditRejected(m, screen)
       IN \E net \in BOOLEAN :
            LET ok == net /\ ~rejected
            IN /\ msgs' = IF ok THEN [msgs EXCEPT ![m].screen = screen] ELSE msgs
               /\ hs' = [hs EXCEPT ![h].calls = Append(@, Call("edit", m, screen, ok)),
                                   ![h].pc = IF ok THEN "done" ELSE "raised",
                                   ![h].err = Failure(net, rejected)]
    /\ UNCHANGED PRODUCTS

\* Mutant of ReplyPhoto: a failed send is swallowed and the delete follows.
ReplyPhotoSwallowed(h) ==
    /\ hs[h].pc = "photo"
    /\ LET screen == ProductDetailScreen(hs[h].parts[2], hs[h].parts[3])
       IN \E net \in BOOLEAN :
            /\ net => Len(msgs) < MaxMsgs
            /\ msgs' = IF net THEN Append(msgs, Message(screen)) ELSE msgs
            /\ hs' = [hs EXCEPT ![h].calls =
                                    Append(@, Call("photo", IF net THEN Len(msgs) + 1 ELSE 0,
                                                   screen, net)),
                                ![h].pc = "delete"]
    /\ UNCHANGED PRODUCTS

\* await query.message.reply_photo(...): a new message with the product's
\* image, caption and keyboard is sent to the chat.
ReplyPhoto(h) ==
    /\ hs[h].pc = "photo"
    /\ LET screen == ProductDetailScreen(hs[h].parts[2], hs[h].parts[3])
       IN \E net \in BOOLEAN :
            /\ net => Len(msgs) < MaxMsgs
            /\ msgs' = IF net THEN Append(msgs, Message(screen)) ELSE msgs
            /\ hs' = [hs EXCEPT ![h].calls =
                                    Append(@, Call("photo", IF net THEN Len(msgs) + 1 ELSE 0,
                                                   screen, net)),
                                ![h].pc = IF net THEN "delete" ELSE "raised",
                                ![h].err = Failure(net, FALSE)]
    /\ UNCHANGED PRODUCTS

\* await query.message.delete(), reached only when reply_photo returned.
DeleteMessage(h) ==
    /\ hs[h].pc = "delete"
    /\ LET m == hs[h].origin
           rejected == DeleteRejected(m)
       IN \E net \in BOOLEAN :
            LET ok == net /\ ~rejected
            IN /\ msgs' = IF ok THEN [msgs EXCEPT ![m].deleted = TRUE] ELSE msgs
               /\ hs' = [hs EXCEPT ![h].calls = Append(@, Call("delete", m, NoScreen, ok)),
                                   ![h].pc = IF ok THEN "done" ELSE "raised",
                                   ![h].err = Failure(net, rejected)]
    /\ UNCHANGED PRODUCTS

\* button_handler has returned, or has raised and the Application has logged
\* the exception: the next update can be taken.
Return(h) ==
    /\ hs[h].pc \in {"done", "raised"}
    /\ hs' = [hs EXCEPT ![h] = Idle]
    /\ UNCHANGED <<PRODUCTS, msgs>>

Next ==
    \/ \E user \in Users : Start(user)
    \/ \E h \in DOMAIN hs : Callback(h)
    \/ \E h \in DOMAIN hs : Answer(h)
    \/ \E h \in DOMAIN hs : Route(h)
    \/ \E h \in DOMAIN hs : EditMessageText(h)
    \/ \E h \in DOMAIN hs : ReplyPhoto(h)
    \/ \E h \in DOMAIN hs : DeleteMessage(h)
    \/ \E h \in DOMAIN hs : Return(h)

Spec == Init /\ [][Next]_vars

\* The bot driven only through the controls its screens show.
NextTaps ==
    \/ \E user \in Users : Start(user)
    \/ \E h \in DOMAIN hs : Tap(h)
    \/ \E h \in DOMAIN hs : Answer(h)
    \/ \E h \in DOMAIN hs : Route(h)
    \/ \E h \in DOMAIN hs : EditMessageText(h)
    \/ \E h \in DOMAIN hs : ReplyPhoto(h)
    \/ \E h \in DOMAIN hs : DeleteMessage(h)
    \/ \E h \in DOMAIN hs : Return(h)

SpecTaps == Init /\ [][NextTaps]_vars

\* Two updates in flight.  With concurrent_updates the Application runs the
\* handlers of several updates as tasks of one event loop, which interleave at
\* their awaits; without it (line 208) the second update waits in the queue
\* until the first handler has returned, which is the interleaving where the
\* second handler takes no step before the first has finished.  A double tap
\* is two taps on buttons a visible message shows when they are made.
InitConc ==
    /\ PRODUCTS \in Catalogs
    /\ msgs = <<>>
    /\ hs = [h \in {1, 2} |-> Idle]

\* /start while other updates may be in flight.
StartConc(user) ==
    /\ Len(msgs) < MaxMsgs
    /\ msgs' = Append(msgs, Message(WelcomeScreen(user)))
    /\ UNCHANGED <<PRODUCTS, hs>>

\* A tap on a shown button while another update may still be in flight; the
\* update takes the first free handler slot.
TapConc(h) ==
    /\ hs[h].pc = "idle"
    /\ \A g \in DOMAIN hs : g < h => hs[g].pc # "idle"
    /\ \E m \in 1..Len(msgs) :
         /\ ~msgs[m].deleted
         /\ \E data \in ButtonTokens(m) : Deliver(h, m, data)
    /\ UNCHANGED <<PRODUCTS, msgs>>

NextConc ==
    \/ \E user \in Users : StartConc(user)
    \/ \E h \in DOMAIN hs : TapConc(h)
    \/ \E h \in DOMAIN hs : Answer(h)
    \/ \E h \in DOMAIN hs : Route(h)
    \/ \E h \in DOMAIN hs : EditMessageText(h)
    \/ \E h \in DOMAIN hs : ReplyPhoto(h)
    \/ \E h \in DOMAIN hs : DeleteMessage(h)
    \/ \E h \in DOMAIN hs : Return(h)

SpecConc == InitConc /\ [][NextConc]_vars

\* The bot driven through its shown controls, over catalogs whose keys may
\* hold the delimiter.
InitKeys ==
    /\ PRODUCTS \in CatalogsWithKeys
    /\ msgs = <<>>
    /\ hs = [h \in {1} |-> Idle]

SpecKeys == InitKeys /\ [][NextTaps]_vars

\* ---------------------------------------------------------------- typing

Pcs == {"idle", "answer", "route", "edit", "photo", "delete", "done", "raised"}

Errs == {"none", "IndexError", "NetworkError", "BadRequest"}

TypeOK ==
    /\ PRODUCTS \in Catalogs
    /\ Len(msgs) <= MaxMsgs
    /\ \A m \in 1..Len(msgs) :
         msgs[m].deleted \in BOOLEAN /\ msgs[m].screen.kind \in {"text", "photo"}
    /\ \A h \in DOMAIN hs :
         /\ hs[h].pc \in Pcs
         /\ hs[h].err \in Errs
         /\ hs[h].origin \in 0..Len(msgs)
         /\ (hs[h].pc = "raised") = (hs[h].err # "none")

\* ---------------------------------------------------------------- properties

Finished(h) == hs[h].pc \in {"done", "raised"}

\* The callback tokens of a screen's buttons, in order.
Tokens(screen) == [i \in 1..Len(screen.buttons) |-> screen.buttons[i].data]

\* The leading verb of a token: its text before the first delimiter.
VerbOf(data) == IF data = <<>> \/ data[1] = Delim THEN "" ELSE data[1]

\* The operations a handler has issued, in order.
Ops(h) == [i \in 1..Len(hs[h].calls) |-> hs[h].calls[i].op]

\* C1: for every category k of the catalog, the handler of the token
\* "category_"+k issues, after the acknowledgement, exactly one transport call:
\* an edit of the originating message that carries one button per product of k,
\* in catalog order, labelled with the product's name and with token
\* "product_"+k+"_"+productKey, then one button with token "back_categories",
\* and nothing else; when the edit succeeds the message shows that screen.
C1_ProductListRendered ==
    \A h \in DOMAIN hs : \A i \in 1..Len(PRODUCTS) :
        LET r == hs[h]
            k == PRODUCTS[i].key
            items == PRODUCTS[i].items
        IN (r.data = <<"category", "_">> \o k /\ Len(r.calls) >= 2) =>
             LET c == r.calls[2]
             IN /\ Len(r.calls) = 2
                /\ c.op = "edit" /\ c.msg = r.origin /\ c.screen.kind = "text"
                /\ Len(c.screen.buttons) = Len(items) + 1
                /\ \A j \in 1..Len(items) :
                     /\ c.screen.buttons[j].data
                            = <<"product", "_">> \o k \o <<"_">> \o items[j].key
                     /\ c.screen.buttons[j].label = <<items[j].name>>
                /\ c.screen.buttons[Len(items) + 1].data = <<"back", "_", "categories">>
                /\ (c.ok => msgs[r.origin].screen = c.screen)

\* C1's case: the menu button of category A was tapped and the message now
\* lists p1, p2 and the back button.
C1_Witness ==
    \E h \in DOMAIN hs :
        /\ PRODUCTS = CatalogAB
        /\ hs[h].pc = "done"
        /\ hs[h].data = <<"category", "_", "A">>
        /\ Tokens(msgs[hs[h].origin].screen)
             = << <<"product", "_", "A", "_", "p1">>, <<"product", "_", "A", "_", "p2">>,
                  <<"back", "_", "categories">> >>

\* C2: for every product p of every category c of the catalog, the handler of
\* the token "product_"+c+"_"+p sends, as its first call after the
\* acknowledgement, a photo message with the image of p, a caption holding the
\* name, the description and the two-decimal price of p, and exactly the two
\* controls "add_"+c+"_"+p and "category_"+c; when the send succeeds the new
\* message shows that screen.
C2_ProductDetailRendered ==
    \A h \in DOMAIN hs : \A i \in 1..Len(PRODUCTS) : \A j \in 1..Len(PRODUCTS[i].items) :
        LET r == hs[h]
            c == PRODUCTS[i].key
            product == PRODUCTS[i].items[j]
        IN (r.data = <<"product", "_">> \o c \o <<"_">> \o product.key /\ Len(r.calls) >= 2) =>
             LET call == r.calls[2]
             IN /\ call.op = "photo" /\ call.screen.kind = "photo"
                /\ call.screen.photo = product.image_url
                /\ call.screen.text[2] = product.name
                /\ call.screen.text[5] = product.description
                /\ SubSeq(call.screen.text, 8, 11)
                     = <<ToString(product.price \div 100), ".",
                         ToString((product.price \div 10) % 10), ToString(product.price % 10)>>
                /\ Tokens(call.screen)
                     = << <<"add", "_">> \o c \o <<"_">> \o product.key,
                          <<"category", "_">> \o c >>
                /\ (call.ok => /\ call.msg \in 1..Len(msgs)
                               /\ call.msg # r.origin
                               /\ msgs[call.msg].screen = call.screen)

\* C2's case: p1 of category A was opened in the catalog where B has a p1 too.
C2_Witness ==
    \E h \in DOMAIN hs :
        /\ PRODUCTS = CatalogBA
        /\ hs[h].pc = "done"
        /\ hs[h].data = <<"product", "_", "A", "_", "p1">>
        /\ msgs[Len(msgs)].screen.kind = "photo"
        /\ msgs[Len(msgs)].screen.photo = "url-A-p1"
        /\ SubSeq(msgs[Len(msgs)].screen.text, 8, 11) = <<"95", ".", "0", "0">>

\* C3: no handler raises for a malformed token: whatever the token, the
\* handler never ends in an IndexError (a missing segment).
C3_NeverCrashes == \A h \in DOMAIN hs : hs[h].err # "IndexError"

\* C4: while a token whose verb is not category, product or back is handled,
\* no step changes any message, and the handler issues nothing but the
\* acknowledgement and raises nothing of its own.
C4_UnknownVerbNoEffect ==
    [][\A h \in DOMAIN hs :
         (VerbOf(hs'[h].data) \notin {"category", "product", "back"} /\ hs'[h].pc # "idle") =>
            /\ hs'[h] # hs[h] => msgs' = msgs
            /\ \A i \in 1..Len(hs'[h].calls) : hs'[h].calls[i].op = "answer"
            /\ hs'[h].err \in {"none", "NetworkError"}]_vars

\* C4's case: the Add to Cart button of a detail screen was tapped and handled.
C4_Witness ==
    \E h \in DOMAIN hs :
        /\ hs[h].pc = "done"
        /\ hs[h].data = <<"add", "_", "A", "_", "p1">>
        /\ hs[h].message.kind = "photo"
        /\ msgs[hs[h].origin].screen = hs[h].message
        /\ ~msgs[hs[h].origin].deleted

\* C5: the handler of a token whose verb is back issues, after the
\* acknowledgement, exactly one call: an edit of the originating message that
\* carries the category menu (one button per category, in catalog order, token
\* "category_"+key), whatever follows the verb; it never raises IndexError and
\* never issues a not-found screen.
C5_BackRendersMenu ==
    \A h \in DOMAIN hs :
        LET r == hs[h]
        IN VerbOf(r.data) = "back" =>
             /\ r.err # "IndexError"
             /\ r.pc \notin {"photo", "delete"}
             /\ Len(r.calls) >= 2 =>
                  LET c == r.calls[2]
                  IN /\ Len(r.calls) = 2
                     /\ c.op = "edit" /\ c.msg = r.origin /\ c.screen.kind = "text"
                     /\ c.screen.text = <<"Please select a category to continue browsing:">>
                     /\ Len(c.screen.buttons) = Len(PRODUCTS)
                     /\ \A i \in 1..Len(PRODUCTS) :
                          /\ c.screen.buttons[i].data = <<"category", "_">> \o PRODUCTS[i].key
                          /\ c.screen.buttons[i].label = <<PRODUCTS[i].name>>
                     /\ (c.ok => msgs[r.origin].screen = c.screen)

\* C5's case: the verb alone, with no suffix, turned a message into the menu.
C5_Witness ==
    \E h \in DOMAIN hs :
        /\ PRODUCTS = CatalogAB
        /\ hs[h].pc = "done"
        /\ hs[h].data = <<"back">>
        /\ Tokens(msgs[hs[h].origin].screen)
             = << <<"category", "_", "A">>, <<"category", "_", "B">> >>
        /\ msgs[hs[h].origin].screen.text # hs[h].message.text

\* A token's text after its first delimiter, and before it.
AfterDelim(s) == SubSeq(s, FirstDelim(s) + 1, Len(s))

BeforeDelim(s) == IF HasDelim(s) THEN SubSeq(s, 1, FirstDelim(s) - 1) ELSE s

IsCategory(k) == \E i \in 1..Len(PRODUCTS) : PRODUCTS[i].key = k

IsProduct(c, p) ==
    \E i \in 1..Len(PRODUCTS) :
        /\ PRODUCTS[i].key = c
        /\ \E j \in 1..Len(PRODUCTS[i].items) : PRODUCTS[i].items[j].key = p

\* The handler r issued, after the acknowledgement, exactly one call: an edit
\* of its originating message to the plain text `text` with no controls, and
\* when the edit succeeded the message shows that text and no button.
OnlyErrorEdit(r, text) ==
    Len(r.calls) >= 2 =>
        LET c == r.calls[2]
        IN /\ Len(r.calls) = 2
           /\ c.op = "edit" /\ c.msg = r.origin
           /\ c.screen.kind = "text" /\ c.screen.text = <<text>> /\ c.screen.buttons = <<>>
           /\ (c.ok => /\ msgs[r.origin].screen.text = <<text>>
                       /\ msgs[r.origin].screen.buttons = <<>>)

\* C6 as stated: for every key k that is not a category of the catalog (k
\* being all that follows "category_"), the handler of "category_"+k issues
\* only the edit to the category-not-found text with no controls.
C6_AnyUnknownKeyError ==
    \A h \in DOMAIN hs :
        LET r == hs[h]
        IN (VerbOf(r.data) = "category" /\ HasDelim(r.data) /\ ~IsCategory(AfterDelim(r.data)))
             => /\ r.pc \notin {"photo", "delete"}
                /\ OnlyErrorEdit(r, "Sorry, category not found.")

\* C6 as amended: for every key k whose text before its first delimiter (all
\* of k when it holds none) is not a category of the catalog, the handler of
\* "category_"+k issues, after the acknowledgement, only an edit of the
\* originating message to the plain category-not-found text with zero
\* controls: no product list and no back button.
C6_UnknownCategoryError ==
    \A h \in DOMAIN hs :
        LET r == hs[h]
        IN (/\ VerbOf(r.data) = "category" /\ HasDelim(r.data)
            /\ ~IsCategory(BeforeDelim(AfterDelim(r.data))))
             => /\ r.pc \notin {"photo", "delete"}
                /\ OnlyErrorEdit(r, "Sorry, category not found.")

\* C6's case: a menu was replaced by the category-not-found text.
C6_Witness ==
    \E h \in DOMAIN hs :
        /\ hs[h].pc = "done"
        /\ hs[h].data = <<"category", "_", "zzz">>
        /\ hs[h].message.buttons # <<>>
        /\ msgs[hs[h].origin].screen.text = <<"Sorry, category not found.">>
        /\ msgs[hs[h].origin].screen.buttons = <<>>

\* C7: for a product token with both segments, a category key absent from the
\* catalog and a product key absent from an existing category give the same
\* outcome: after the acknowledgement the handler issues only an edit of the
\* originating message to the plain product-not-found text with no controls;
\* it sends no photo and deletes nothing.
C7_ProductNotFoundUniform ==
    \A h \in DOMAIN hs :
        LET r == hs[h]
        IN (/\ VerbOf(r.data) = "product" /\ HasDelim(r.data)
            /\ HasDelim(AfterDelim(r.data))
            /\ ~IsProduct(BeforeDelim(AfterDelim(r.data)), AfterDelim(AfterDelim(r.data))))
             => /\ r.pc \notin {"photo", "delete"}
                /\ r.err # "IndexError"
                /\ OnlyErrorEdit(r, "Sorry, product not found.")
                /\ "photo" \notin {r.calls[i].op : i \in 1..Len(r.calls)}
                /\ "delete" \notin {r.calls[i].op : i \in 1..Len(r.calls)}

\* C7's case: the category key of a product token is not in the catalog.
C7_Witness ==
    \E h \in DOMAIN hs :
        /\ hs[h].pc = "done"
        /\ hs[h].data = <<"product", "_", "zzz", "_", "p1">>
        /\ Ops(h) = <<"answer", "edit">>
        /\ msgs[hs[h].origin].screen.text = <<"Sorry, product not found.">>

\* C8: a handler issues the delete of its originating message only after its
\* photo send has succeeded and the new message exists; a handler whose photo
\* send failed issues no delete, and no step taken with that failure on record
\* deletes its originating message.
C8_DeleteOnlyAfterPhoto ==
    [][\A h \in DOMAIN hs :
         LET r == hs[h]
             n == hs'[h]
         IN /\ (Len(n.calls) > Len(r.calls) /\ n.calls[Len(n.calls)].op = "delete") =>
                  \E i \in 1..Len(r.calls) :
                      /\ r.calls[i].op = "photo" /\ r.calls[i].ok
                      /\ r.calls[i].msg \in 1..Len(msgs)
                      /\ msgs[r.calls[i].msg].screen = r.calls[i].screen
                      /\ ~msgs[r.calls[i].msg].deleted
            /\ (\E i \in 1..Len(n.calls) : n.calls[i].op = "photo" /\ ~n.calls[i].ok) =>
                  /\ \A i \in 1..Len(n.calls) : n.calls[i].op # "delete"
                  /\ msgs'[n.origin].deleted = msgs[n.origin].deleted]_vars

\* C8's case: a product transition ran to its end: photo sent, then the
\* originating list deleted.
C8_Witness ==
    \E h \in DOMAIN hs :
        /\ hs[h].pc = "done"
        /\ Ops(h) = <<"answer", "photo", "delete">>
        /\ msgs[hs[h].origin].deleted
        /\ ~msgs[hs[h].calls[2].msg].deleted

\* C9: every handler invokes the acknowledgement exactly once, as its first
\* call: nothing is decoded and no send, edit or delete is issued before it,
\* and it is never invoked again, whatever the token and the outcome.
C9_AcknowledgedOnce ==
    \A h \in DOMAIN hs :
        LET r == hs[h]
        IN /\ r.pc = "answer" => r.calls = <<>> /\ r.parts = <<>>
           /\ (r.pc \notin {"idle", "answer"} \/ r.parts # <<>> \/ r.calls # <<>>) =>
                 /\ Len(r.calls) >= 1
                 /\ r.calls[1].op = "answer"
                 /\ \A i \in 2..Len(r.calls) : r.calls[i].op # "answer"

\* C9's case: a known verb with its segment missing: acknowledged, then raised.
C9_Witness ==
    \E h \in DOMAIN hs :
        /\ hs[h].err = "IndexError"
        /\ hs[h].data = <<"product", "_", "A">>
        /\ Ops(h) = <<"answer">>
        /\ hs[h].calls[1].ok

\* C10 (under SpecTaps): the navigation cycle of the catalog A = {p1, p2},
\* B = {p3}, each tap on a control a visible message shows, with no network
\* failure: category_A on the menu gives the
\* list [p1, p2, back]; product_A_p1 on the list gives a new detail message
\* with [add_A_p1, category_A] and deletes the list; category_A on that detail
\* message, now the only visible one, gives the list again; back_categories on the list gives the menu [A, B].
C10_NavigationCycle ==
    \A h \in DOMAIN hs :
        LET r == hs[h]
            menu == << <<"category", "_", "A">>, <<"category", "_", "B">> >>
            list == << <<"product", "_", "A", "_", "p1">>, <<"product", "_", "A", "_", "p2">>,
                       <<"back", "_", "categories">> >>
            detail == << <<"add", "_", "A", "_", "p1">>, <<"category", "_", "A">> >>
            shown == Tokens(msgs[r.origin].screen)
        IN (PRODUCTS = CatalogAB /\ Finished(h) /\ r.err # "NetworkError") =>
             /\ (Tokens(r.message) = menu /\ r.data = menu[1]) => shown = list
             /\ (Tokens(r.message) = list /\ r.data = list[1]) =>
                    /\ msgs[r.origin].deleted
                    /\ Tokens(msgs[r.calls[2].msg].screen) = detail
             /\ (/\ Tokens(r.message) = detail /\ r.data = detail[2]
                 /\ \A m \in 1..Len(msgs) : m # r.origin => msgs[m].deleted) => shown = list
             /\ (Tokens(r.message) = list /\ r.data = list[3]) => shown = menu

\* A message shows (or showed, when it was deleted) the product list of the
\* category named name.
ShowsListOf(m, name) ==
    /\ msgs[m].screen.kind = "text"
    /\ Len(msgs[m].screen.text) >= 2
    /\ msgs[m].screen.text[1] = "Showing products in"
    /\ msgs[m].screen.text[2] = name

\* C11: for every category k of the catalog, the screen the handler of
\* "category_"+k hands to the edit is identical (text, buttons, order) to every
\* product list of k rendered earlier and still on record in the chat,
\* whatever was handled in between.
C11_ListFreeOfHistory ==
    \A h \in DOMAIN hs : \A i \in 1..Len(PRODUCTS) : \A m \in 1..Len(msgs) :
        LET r == hs[h]
        IN (/\ r.data = <<"category", "_">> \o PRODUCTS[i].key
            /\ Len(r.calls) >= 2
            /\ ShowsListOf(m, PRODUCTS[i].name))
             => r.calls[2].screen = msgs[m].screen

\* C11's case: the list of A was shown, p1 of A was opened from it (the list
\* message is deleted, the detail is the origin now), and category_A is
\* rendered again.
C11_Witness ==
    \E h \in DOMAIN hs : \E m \in 1..Len(msgs) :
        /\ PRODUCTS = CatalogAB
        /\ hs[h].data = <<"category", "_", "A">>
        /\ Len(hs[h].calls) = 2
        /\ hs[h].message.kind = "photo"
        /\ hs[h].message.photo = "url-A-p1"
        /\ m # hs[h].origin
        /\ msgs[m].deleted
        /\ ShowsListOf(m, "Cat A")
        /\ hs[h].calls[2].screen = msgs[m].screen

\* A message shows a category menu: the one of start or the one of back.
ShowsMenu(m) ==
    /\ msgs[m].screen.kind = "text"
    /\ msgs[m].screen.text[1] \in {"Welcome to SpiritedSHE",
                                   "Please select a category to continue browsing:"}

\* C12: every category menu, the one start sends and the one the back
\* transition hands to the edit, has exactly one button per catalog category,
\* in catalog order, labelled with the category's name and with token
\* "category_"+key; so the two grids are identical to each other and to every
\* menu rendered before.
C12_MenuGridStable ==
    LET grid == [i \in 1..Len(PRODUCTS) |->
                    [label |-> <<PRODUCTS[i].name>>,
                     data |-> <<"category", "_">> \o PRODUCTS[i].key]]
    IN /\ \A m \in 1..Len(msgs) : ShowsMenu(m) => msgs[m].screen.buttons = grid
       /\ \A h \in DOMAIN hs :
            (VerbOf(hs[h].data) = "back" /\ Len(hs[h].calls) >= 2) =>
                /\ hs[h].calls[2].screen.buttons = grid
                /\ \A m \in 1..Len(msgs) :
                     ShowsMenu(m) => msgs[m].screen.buttons = hs[h].calls[2].screen.buttons

\* C12's case: a menu sent by start stands beside a menu produced by the back
\* transition.
C12_Witness ==
    \E h \in DOMAIN hs : \E m \in 1..Len(msgs) :
        /\ hs[h].pc = "done"
        /\ hs[h].data = <<"back", "_", "categories">>
        /\ m # hs[h].origin
        /\ msgs[m].screen.text[1] = "Welcome to SpiritedSHE"
        /\ msgs[hs[h].origin].screen.text
             = <<"Please select a category to continue browsing:">>
        /\ msgs[m].screen.buttons = msgs[hs[h].origin].screen.buttons

\* C13: no step changes the catalog: after any sequence of start commands and
\* callbacks, PRODUCTS is the catalog loaded at startup.
C13_CatalogNeverModified == [][PRODUCTS' = PRODUCTS]_vars

\* C13's case: a start, a valid product transition and a malformed token have
\* been handled.
C13_Witness ==
    \E h \in DOMAIN hs :
        /\ PRODUCTS = CatalogAB
        /\ hs[h].err = "IndexError"
        /\ Len(msgs) = 2
        /\ msgs[1].deleted
        /\ msgs[2].screen.kind = "photo"

IsErrorScreen(screen) ==
    /\ screen.kind = "text"
    /\ screen.text \in {<<"Sorry, category not found.">>, <<"Sorry, product not found.">>}

\* C14 as stated: once a message shows a not-found error screen, no handler is
\* ever started with that message as its origin and the message never changes
\* again.
C14_ErrorIsDeadEnd ==
    [][\A m \in 1..Len(msgs) :
         IsErrorScreen(msgs[m].screen) =>
            /\ msgs'[m] = msgs[m]
            /\ \A h \in DOMAIN hs :
                 (hs[h].pc = "idle" /\ hs'[h].pc # "idle") => hs'[h].origin # m]_vars

\* C14 as amended: a message that shows a not-found error screen carries no
\* control, so no tap on a shown control can originate from it; it changes
\* again only by a call of a handler whose callback names it as origin (a
\* callback queued before the error was shown, or a hand-made one), never by
\* start and never by the handler of another message.
C14_ErrorOffersNoControl ==
    [][\A m \in 1..Len(msgs) :
         IsErrorScreen(msgs[m].screen) =>
            /\ msgs[m].screen.buttons = <<>>
            /\ ButtonTokens(m) = {}
            /\ msgs'[m] # msgs[m] =>
                 \E h \in DOMAIN hs :
                     /\ hs[h].origin = m
                     /\ hs[h].pc \in {"edit", "delete"}
                     /\ hs[h].data \notin ButtonTokens(m)]_vars

\* C14's case: a callback turned the first message into an error screen, and
\* a fresh start command gave the user a menu again.
C14_Witness ==
    /\ Len(msgs) = 2
    /\ IsErrorScreen(msgs[1].screen)
    /\ ~msgs[1].deleted
    /\ msgs[2].screen.text[1] = "Welcome to SpiritedSHE"
    /\ \A h \in DOMAIN hs : hs[h].pc = "idle"

\* C18: once start has sent a message, at least one message of the bot is
\* visible in the chat in every state, whatever callbacks arrive and whichever
\* transport calls fail; and every delete a handler issues comes directly after
\* a reply_photo of the same handler that returned a new message, other than
\* the one deleted.
C18_AlwaysAVisibleMessage ==
    /\ Len(msgs) >= 1 => \E m \in 1..Len(msgs) : ~msgs[m].deleted
    /\ \A h \in DOMAIN hs : \A i \in 1..Len(hs[h].calls) :
         hs[h].calls[i].op = "delete" =>
            /\ i > 1
            /\ hs[h].calls[i - 1].op = "photo"
            /\ hs[h].calls[i - 1].ok
            /\ hs[h].calls[i - 1].msg \in 1..Len(msgs)
            /\ hs[h].calls[i - 1].msg # hs[h].calls[i].msg

\* C18's case: a product transition has deleted the first message, and a
\* later handler's reply_photo has failed; the detail message is still there.
C18_Witness ==
    \E h \in DOMAIN hs :
        /\ Len(msgs) = 2
        /\ msgs[1].deleted
        /\ ~msgs[2].deleted
        /\ hs[h].pc = "raised"
        /\ hs[h].err = "NetworkError"
        /\ Len(hs[h].calls) = 2
        /\ hs[h].calls[2].op = "photo"

\* C19: with two callbacks in flight, no handler issues an edit or a delete
\* against a message that is already deleted, and no message is deleted
\* successfully by two handlers.
C19_NoCallOnDeletedMessage ==
    [][/\ \A h \in DOMAIN hs :
            (hs[h].pc \in {"edit", "delete"} /\ Len(hs'[h].calls) > Len(hs[h].calls))
                => ~msgs[hs[h].origin].deleted
       /\ \A h, g \in DOMAIN hs :
            (/\ h # g
             /\ hs[h].origin = hs[g].origin
             /\ hs[h].calls # <<>> /\ hs[g].calls # <<>>
             /\ hs[h].calls[Len(hs[h].calls)].op = "delete"
             /\ hs[g].calls[Len(hs[g].calls)].op = "delete")
                => ~(hs[h].calls[Len(hs[h].calls)].ok /\ hs[g].calls[Len(hs[g].calls)].ok)]_vars

\* C15: with two callbacks in flight, Telegram refuses an edit or a delete of a
\* handler only when it would refuse it with the callback handled alone, that
\* is, an edit of a message that was a photo, or that already showed the
\* screen, when the button was tapped; so each callback gets its screen into
\* the chat as it would alone.
C15_RendersAsAlone ==
    \A h \in DOMAIN hs : \A i \in 1..Len(hs[h].calls) :
        LET c == hs[h].calls[i]
        IN (c.op \in {"edit", "delete"} /\ ~c.ok /\ hs[h].err = "BadRequest") =>
              /\ c.op = "edit"
              /\ hs[h].message.kind = "photo" \/ hs[h].message = c.screen

\* C16: for every category key c without the delimiter and every product key
\* p of c, with or without the delimiter, split('_', 2) of "product_"+c+"_"+p
\* is exactly <<"product", c, p>>, and the handler of that token, the one the
\* list's button for p carries, sends the detail of p.
C16_ProductKeyMayHoldDelim ==
    \A i \in 1..Len(PRODUCTS) : \A j \in 1..Len(PRODUCTS[i].items) :
        LET c == PRODUCTS[i].key
            p == PRODUCTS[i].items[j].key
            token == Joined(Joined(Word("product"), c), p)
        IN ~HasDelim(c) =>
              /\ Split(token, MaxSplit) = <<Word("product"), c, p>>
              /\ ProductKeyboard(c)[j].data = token
              /\ \A h \in DOMAIN hs :
                   hs[h].data = token =>
                      /\ hs[h].parts \in {<<>>, <<Word("product"), c, p>>}
                      /\ Len(hs[h].calls) >= 2 =>
                           /\ hs[h].calls[2].op = "photo"
                           /\ hs[h].calls[2].screen.photo = PRODUCTS[i].items[j].image_url
                           /\ hs[h].calls[2].screen.text = Caption(PRODUCTS[i].items[j])

\* C16's case: the list's button for the product "p_1" was tapped and its
\* detail, not that of "p", is in the chat.
C16_Witness ==
    \E h \in DOMAIN hs :
        /\ PRODUCTS = CatalogDelimProduct
        /\ hs[h].pc = "done"
        /\ hs[h].data = <<"product", "_", "A", "_", "p", "_", "1">>
        /\ msgs[hs[h].origin].deleted
        /\ msgs[Len(msgs)].screen.photo = "url-A-p_1"

NoDelimKeys ==
    \A i \in 1..Len(PRODUCTS) :
        /\ ~HasDelim(PRODUCTS[i].key)
        /\ \A j \in 1..Len(PRODUCTS[i].items) : ~HasDelim(PRODUCTS[i].items[j].key)

\* A token with verb category or product names keys of the catalog.
NamesCatalogKeys(data) ==
    LET parts == Split(data, MaxSplit)
    IN /\ VerbOf(data) = "category" => Len(parts) >= 2 /\ HasKey(PRODUCTS, parts[2])
       /\ VerbOf(data) = "product" => Len(parts) >= 3 /\ ProductFound(parts[2], parts[3])

\* C17: when no catalog key holds the delimiter and only shown controls are
\* tapped, every token on a shown button and every token being handled names
\* keys of the catalog, no message shows and no call carries a not-found
\* screen, and no handler raises IndexError.
C17_NavigationClosed ==
    NoDelimKeys =>
        /\ \A m \in 1..Len(msgs) :
             /\ ~IsErrorScreen(msgs[m].screen)
             /\ \A data \in ButtonTokens(m) : NamesCatalogKeys(data)
        /\ \A h \in DOMAIN hs :
             /\ hs[h].err # "IndexError"
             /\ hs[h].pc # "idle" => NamesCatalogKeys(hs[h].data)
             /\ \A i \in 1..Len(hs[h].calls) : ~IsErrorScreen(hs[h].calls[i].screen)

\* C17's case: from start, a category and then a product were tapped, and a
\* control of the detail screen has been tapped and decoded.
C17_Witness ==
    \E h \in DOMAIN hs :
        /\ NoDelimKeys
        /\ PRODUCTS = CatalogBA
        /\ Len(msgs) = 2
        /\ msgs[1].deleted
        /\ hs[h].origin = 2
        /\ hs[h].message.kind = "photo"
        /\ hs[h].parts = <<Word("category"), Word("A")>>

====
